---- MODULE Spec2Model ----
(***************************************************************************)
(* The chat server of src/chat: the wire projection to_chat_message (the   *)
(* copy in app.py that the server uses, and the copy in utils.py), the     *)
(* list handler get_chat and the streaming handler post_chat, whose        *)
(* generator stream_messages echoes the prompt, reads the history, runs    *)
(* the agent with a debounced text stream and then saves the new messages. *)
(*                                                                         *)
(* Text is a sequence of tokens, so that concatenation and prefixes are    *)
(* computed.  A frame is one line of the response body: json.dumps of a    *)
(* ChatMessage, which is kept as the ChatMessage it encodes.               *)
(***************************************************************************)
EXTENDS Integers, Sequences, FiniteSets, TLC

\* ---------------------------------------------------------------- bounds
MaxFrags == 3
MaxTools == 1
MaxParts == 2
ConcFrags == 1

\* debounce_by=0.01 of stream_output, in milliseconds
DebounceBy == 10

\* the requests of a run, in the order they are submitted
Req == {1, 2}
Prompts == {<<"hello">>, <<"hi", "there">>}
\* the backend's k-th fragment: the code never looks into a fragment, so one
\* token per position stands for any text, and keeps the positions apart
Frags(k) == {<<ToString(k)>>}
\* time between two fragments of the backend: under, or over, the interval
Gaps == {DebounceBy - 4, DebounceBy + 2}

\* ------------------------------------------------- pydantic_ai.messages
\* A part: its class, its content, its own timestamp (0 where the class has
\* none) and whether the content is a str (a UserPromptPart may hold a list).
Part(t, c, ts, s) == [type |-> t, content |-> c, timestamp |-> ts, is_str |-> s]
UserPromptPart(c, ts) == Part("UserPromptPart", c, ts, TRUE)
SystemPromptPart(c, ts) == Part("SystemPromptPart", c, ts, TRUE)
ToolReturnPart(c, ts) == Part("ToolReturnPart", c, ts, TRUE)
TextPart(c) == Part("TextPart", c, 0, TRUE)
ToolCallPart(c) == Part("ToolCallPart", c, 0, TRUE)

\* A ModelMessage: a ModelRequest (no timestamp of its own) or a ModelResponse.
ModelRequest(ps) == [kind |-> "ModelRequest", parts |-> ps, timestamp |-> 0]
ModelResponse(ps, ts) == [kind |-> "ModelResponse", parts |-> ps, timestamp |-> ts]

\* datetime.isoformat(): the ISO-8601 string of a time
isoformat(t) == <<"iso8601", t>>

\* ------------------------------------------------------------ ChatMessage
ChatMessage(r, ts, c) == [raised |-> "none", role |-> r, timestamp |-> ts, content |-> c]
Raise(e) == [raised |-> e, role |-> "", timestamp |-> <<>>, content |-> <<>>]
NoResult == Raise("not called")

to_chat_message_any_part(m) ==
    LET users == {i \in 1..Len(m.parts) : m.parts[i].type = "UserPromptPart"}
        texts == {i \in 1..Len(m.parts) : m.parts[i].type = "TextPart"}
        first(S) == CHOOSE i \in S : \A j \in S : i <= j
    IN  IF m.kind = "ModelRequest" /\ users # {}
        THEN ChatMessage("user", isoformat(m.parts[first(users)].timestamp),
                         m.parts[first(users)].content)
        ELSE IF m.kind = "ModelResponse" /\ texts # {}
        THEN ChatMessage("model", isoformat(m.timestamp), m.parts[first(texts)].content)
        ELSE Raise("UnexpectedModelBehavior")

\* app.py: the projection the server's handlers call; it looks at parts[0] only
to_chat_message(m) ==
    LET first_part == m.parts[1]
    IN  IF m.kind = "ModelRequest" /\ first_part.type = "UserPromptPart"
        THEN IF first_part.is_str
             THEN ChatMessage("user", isoformat(first_part.timestamp), first_part.content)
             ELSE Raise("AssertionError")
        ELSE IF m.kind = "ModelResponse" /\ first_part.type = "TextPart"
        THEN ChatMessage("model", isoformat(m.timestamp), first_part.content)
        ELSE Raise("UnexpectedModelBehavior")

\* utils.py: a request is projected from its first UserPromptPart, wherever it is
utils_to_chat_message(m) ==
    LET users == {i \in 1..Len(m.parts) : m.parts[i].type = "UserPromptPart"}
        part == m.parts[CHOOSE i \in users : \A j \in users : i <= j]
        first_part == m.parts[1]
    IN  IF m.kind = "ModelRequest"
        THEN IF users = {} THEN Raise("UnexpectedModelBehavior")
             ELSE IF part.is_str
             THEN ChatMessage("user", isoformat(part.timestamp), part.content)
             ELSE Raise("AssertionError")
        ELSE IF m.kind = "ModelResponse" /\ first_part.type = "TextPart"
        THEN ChatMessage("model", isoformat(m.timestamp), first_part.content)
        ELSE Raise("UnexpectedModelBehavior")

create_user_message_as_model(content, now) == ChatMessage("model", isoformat(now), content)

\* create_user_message: the echo of the prompt, stamped with the current time
create_user_message(content, now) == ChatMessage("user", isoformat(now), content)

\* ------------------------------------------------------------- Database
\* database.py is not among the sources: get_messages returns every stored
\* message in insertion order, add_messages stores a batch at the end, whole.
get_messages(store) == store
add_messages(store, batch) == store \o batch

\* ================================================================ roulette
\* src/roulette_enhanced.py.  A str is a sequence of tokens, a token being a decimal
\* digit or a word; an Optional is <<>> (None) or <<v>>.
None == <<>>
Some(v) == <<v>>

ROULETTE_NUMBERS == (0..36) \cup {37}
RED_NUMBERS == {1, 3, 5, 7, 9, 12, 14, 16, 18, 19, 21, 23, 25, 27, 30, 32, 34, 36}
BLACK_NUMBERS == {2, 4, 6, 8, 10, 11, 13, 15, 17, 20, 22, 24, 26, 28, 29, 31, 33, 35}

GameState == [balance |-> 1000, winning_number |-> None, last_spin_result |-> None]

get_number_color(number) ==
    IF number \in {0, 37} THEN <<"green">>
    ELSE IF number \in RED_NUMBERS THEN <<"red">>
    ELSE IF number \in BLACK_NUMBERS THEN <<"black">>
    ELSE <<"unknown">>

Digits == <<"0", "1", "2", "3", "4", "5", "6", "7", "8", "9">>
IsDigit(c) == \E i \in 1..Len(Digits) : Digits[i] = c
DigitValue(c) == (CHOOSE i \in 1..Len(Digits) : Digits[i] = c) - 1

\* str(n) of an int n >= 0: its decimal digits
RECURSIVE str(_)
str(n) == IF n < 10 THEN <<Digits[n + 1]>> ELSE str(n \div 10) \o <<Digits[(n % 10) + 1]>>

RECURSIVE decimal(_)
decimal(s) == IF s = <<>> THEN 0 ELSE decimal(SubSeq(s, 1, Len(s) - 1)) * 10 + DigitValue(s[Len(s)])

\* int(s) of a str: the number its digits spell (leading zeros allowed), ValueError
\* for the empty str and for a str with anything but digits in it
int(s) ==
    IF s # <<>> /\ \A i \in 1..Len(s) : IsDigit(s[i])
    THEN [raised |-> "none", value |-> decimal(s)]
    ELSE [raised |-> "ValueError", value |-> 0]

format_number(number) == IF number = 37 THEN <<"0", "0">> ELSE str(number)

\* bet_value is an int for a straight bet and a str for the others, as check_results
\* passes it
calculate_payout(bet_type, bet_amount, winning_number, bet_value) ==
    IF bet_type = "straight"
    THEN IF winning_number = bet_value THEN bet_amount * 35 ELSE 0
    ELSE IF bet_type = "color"
    THEN LET winning_color == get_number_color(winning_number)
         IN  IF winning_color = bet_value THEN bet_amount * 1 ELSE 0
    ELSE IF bet_type = "odd_even"
    THEN IF winning_number \in {0, 37} THEN 0
         ELSE LET is_odd == winning_number % 2 = 1
                  bet_is_odd == bet_value = <<"odd">>
              IN  IF is_odd = bet_is_odd THEN bet_amount * 1 ELSE 0
    ELSE IF bet_type = "high_low"
    THEN IF winning_number \in {0, 37} THEN 0
         ELSE LET is_high == winning_number >= 19
                  bet_is_high == bet_value = <<"high">>
              IN  IF is_high = bet_is_high THEN bet_amount * 1 ELSE 0
    ELSE 0

\* what a tool returns: the message's kind and the numbers printed in it
Reply(tool, kind, amount, shown) ==
    [tool |-> tool, kind |-> kind, amount |-> amount, shown |-> shown]
NoReply == Reply("none", "none", 0, 0)

\* a game about to start: the GameState main() constructs, nothing called yet
NewGame == [balance |-> GameState.balance, winning_number |-> GameState.winning_number,
            last_spin_result |-> GameState.last_spin_result, reply |-> NoReply, calls |-> 0]

\* one evaluation of calculate_payout: its arguments and, once called, its result
NoBet == [bet_type |-> "none", bet_amount |-> 0, winning_number |-> 0,
          bet_value |-> <<>>, payout |-> None]

\* ---------------------------------------------------------------- state
VARIABLES
    db,       \* the messages the Database holds, in insertion order
    clock,    \* the next value of datetime.now() / the agent's timestamps
    req,      \* per POST /chat/ request: the locals of stream_messages
    listed,   \* the last GET /chat/ : the messages it read and its response
    rec,      \* a ModelMessage handed to the projections
    wire,     \* what app.py's to_chat_message made of rec
    wire_utils, \* what utils.py's to_chat_message made of rec
    game,     \* the roulette's GameState, and what the last tool call returned
    bet       \* a call of calculate_payout: its arguments and its result

vars == <<db, clock, req, listed, rec, wire, wire_utils, game, bet>>

Fresh ==
    [pc |-> "Idle", prompt |-> <<>>, frames |-> <<>>, stream |-> "open",
     messages |-> <<>>, fragments |-> <<>>, gaps |-> <<>>, buffered |-> 0,
     elapsed |-> 0, min_gap |-> 0, tools |-> 0, user_time |-> 0,
     result_time |-> 0, log |-> <<>>, cause |-> "none", appends |-> 0,
     before |-> <<>>]

NoListing == [seen |-> <<>>, status |-> 0, raised |-> "none", at |-> 0, body |-> <<>>]
NoRecord == ModelRequest(<<>>)

RECURSIVE Concat(_)
Concat(fs) == IF fs = <<>> THEN <<>> ELSE Head(fs) \o Concat(Tail(fs))

\* the text result.stream_output has accumulated: every fragment so far, joined
text(q) == Concat(q.fragments)

\* ------------------------------------------------------------- GET /chat/
RECURSIVE join_partial(_, _, _)
join_partial(msgs, i, out) ==
    IF i > Len(msgs) THEN [status |-> 200, raised |-> "none", at |-> 0, body |-> out]
    ELSE LET w == to_chat_message(msgs[i])
         IN  IF w.raised # "none"
             THEN [status |-> 500, raised |-> w.raised, at |-> i, body |-> out]
             ELSE join_partial(msgs, i + 1, Append(out, w))

\* b"\n".join(json.dumps(to_chat_message(m)) for m in msgs): the first message
\* that to_chat_message rejects raises out of the handler, before any Response
\* exists, and the framework answers 500 with none of the lines
RECURSIVE join(_, _, _)
join(msgs, i, out) ==
    IF i > Len(msgs) THEN [status |-> 200, raised |-> "none", at |-> 0, body |-> out]
    ELSE LET w == to_chat_message(msgs[i])
         IN  IF w.raised # "none"
             THEN [status |-> 500, raised |-> w.raised, at |-> i, body |-> <<>>]
             ELSE join(msgs, i + 1, Append(out, w))

get_chat ==
    /\ LET msgs == get_messages(db)
           resp == join(msgs, 1, <<>>)
       IN  listed' = [seen |-> msgs, status |-> resp.status, raised |-> resp.raised,
                      at |-> resp.at, body |-> resp.body]
    /\ UNCHANGED <<db, clock, req, rec, wire, wire_utils, game, bet>>

\* ------------------------------------------------------------ POST /chat/
Update(r, q) ==
    /\ req' = [req EXCEPT ![r] = q]
    /\ UNCHANGED <<listed, rec, wire, wire_utils, game, bet>>

\* stream_messages up to its first yield: the prompt is echoed
Echo(r, p) ==
    /\ req[r].pc = "Idle"
    /\ Update(r, [req[r] EXCEPT !.pc = "Echoed", !.prompt = p,
                    !.frames = <<create_user_message(p, clock)>>,
                    !.log = <<"echo">>, !.before = db])
    /\ clock' = clock + 1
    /\ UNCHANGED db

\* messages = await database.get_messages()
ReadHistory(r) ==
    /\ req[r].pc = "Echoed"
    /\ Update(r, [req[r] EXCEPT !.pc = "HistoryRead", !.messages = get_messages(db),
                    !.log = Append(@, "read")])
    /\ UNCHANGED <<db, clock>>

Abort_with_frame(r, why) ==
    Update(r, [req[r] EXCEPT !.pc = "Errored", !.stream = "closed", !.cause = why,
                 !.frames = Append(@, ChatMessage("error", isoformat(clock), <<why>>)),
                 !.log = Append(@, "raise")])

Abort_resuming(r, why) ==
    Update(r, [req[r] EXCEPT !.cause = why, !.log = Append(@, "raise")])

\* an exception leaves the generator: nothing more is yielded, and the
\* response, whose head is already sent, is cut off
Abort(r, why) ==
    Update(r, [req[r] EXCEPT !.pc = "Errored", !.stream = "aborted", !.cause = why,
                 !.log = Append(@, "raise")])

ReadFail(r) ==
    /\ req[r].pc = "Echoed"
    /\ Abort(r, "read")
    /\ UNCHANGED <<db, clock>>

\* agent.run_stream(prompt, message_history=messages) is entered: the agent stamps
\* the user prompt, makes k tool round trips and the text response starts
Invoke(r, k) ==
    /\ req[r].pc = "HistoryRead"
    /\ Update(r, [req[r] EXCEPT !.pc = "Generating", !.tools = k,
                    !.user_time = clock, !.result_time = clock + 1,
                    !.log = Append(@, "invoke")])
    /\ clock' = clock + 2
    /\ UNCHANGED db

RECURSIVE tool_traffic(_, _)
tool_traffic(k, ts) ==
    IF k = 0 THEN <<>>
    ELSE <<ModelResponse(<<ToolCallPart(<<"call">>)>>, ts),
           ModelRequest(<<ToolReturnPart(<<"result">>, ts)>>)>> \o tool_traffic(k - 1, ts)

new_messages_no_prompt(q) ==
    tool_traffic(q.tools, q.user_time)
        \o <<ModelResponse(<<TextPart(text(q))>>, q.result_time)>>

new_messages_last_fragment(q) ==
    <<ModelRequest(<<UserPromptPart(q.prompt, q.user_time)>>)>>
        \o tool_traffic(q.tools, q.user_time)
        \o <<ModelResponse(<<TextPart(q.fragments[Len(q.fragments)])>>, q.result_time)>>

\* result.new_messages(): the request of this run, the tool traffic, the reply
new_messages(q) ==
    <<ModelRequest(<<UserPromptPart(q.prompt, q.user_time)>>)>>
        \o tool_traffic(q.tools, q.user_time)
        \o <<ModelResponse(<<TextPart(text(q))>>, q.result_time)>>

Snapshot_delta(q) ==
    to_chat_message(ModelResponse(<<TextPart(q.fragments[Len(q.fragments)])>>, q.result_time))

\* the loop body: a ModelResponse of the text so far, stamped result.timestamp()
Snapshot(q) == to_chat_message(ModelResponse(<<TextPart(text(q))>>, q.result_time))

Emit(q) == [q EXCEPT !.frames = Append(@, Snapshot(q)), !.buffered = 0,
                     !.log = Append(@, "frame")]

Fragment_undebounced(r, f, g) ==
    /\ req[r].pc = "Generating"
    /\ Len(req[r].fragments) < MaxFrags
    /\ Update(r, Emit([req[r] EXCEPT !.fragments = Append(@, f), !.gaps = Append(@, g)]))
    /\ UNCHANGED <<db, clock>>

\* the next fragment of the backend, g after the one before it.  stream_output
\* groups fragments: a group opens with a fragment and is yielded once
\* debounce_by has passed since then
Fragment(r, f, g) ==
    /\ req[r].pc = "Generating"
    /\ Len(req[r].fragments) < MaxFrags
    /\ IF req[r].buffered > 0 THEN req[r].elapsed + g < DebounceBy
                               ELSE g >= req[r].min_gap
    /\ Update(r, [req[r] EXCEPT !.fragments = Append(@, f), !.gaps = Append(@, g),
                    !.buffered = @ + 1,
                    !.elapsed = IF req[r].buffered > 0 THEN @ + g ELSE 0,
                    !.min_gap = 0])
    /\ UNCHANGED <<db, clock>>

\* the interval has passed since the group opened: the text so far is yielded
TimerFlush(r) ==
    /\ req[r].pc = "Generating"
    /\ req[r].buffered > 0
    /\ Update(r, [Emit(req[r]) EXCEPT !.min_gap = DebounceBy - req[r].elapsed])
    /\ UNCHANGED <<db, clock>>

StreamEnd_no_flush(r) ==
    /\ req[r].pc = "Generating"
    /\ req[r].fragments # <<>>
    /\ Update(r, [req[r] EXCEPT !.pc = "Committing", !.buffered = 0,
                    !.log = Append(@, "end")])
    /\ UNCHANGED <<db, clock>>

\* the backend's stream ends: the open group, if any, is yielded, and the
\* async with block is left
StreamEnd(r) ==
    /\ req[r].pc = "Generating"
    /\ req[r].fragments # <<>>
    /\ Update(r, [(IF req[r].buffered > 0 THEN Emit(req[r]) ELSE req[r])
                    EXCEPT !.pc = "Committing", !.log = Append(@, "end")])
    /\ UNCHANGED <<db, clock>>

BackendFail_saving(r) ==
    /\ req[r].pc \in {"HistoryRead", "Generating"}
    /\ db' = add_messages(db, new_messages(req[r]))
    /\ Abort(r, "backend")
    /\ UNCHANGED clock

\* the backend raises, on entering run_stream or between two fragments
BackendFail(r) ==
    /\ req[r].pc \in {"HistoryRead", "Generating"}
    /\ Abort(r, "backend")
    /\ UNCHANGED <<db, clock>>

Commit_rewrite(r) ==
    /\ req[r].pc = "Committing"
    /\ db' = add_messages(req[r].messages, new_messages(req[r]))
    /\ Update(r, [req[r] EXCEPT !.pc = "Done", !.stream = "closed", !.appends = @ + 1,
                    !.log = Append(@, "append")])
    /\ UNCHANGED clock

Commit_prepend(r) ==
    /\ req[r].pc = "Committing"
    /\ db' = new_messages(req[r]) \o db
    /\ Update(r, [req[r] EXCEPT !.pc = "Done", !.stream = "closed", !.appends = @ + 1,
                    !.log = Append(@, "append")])
    /\ UNCHANGED clock

\* await database.add_messages(result.new_messages_json()), then the generator ends
Commit(r) ==
    /\ req[r].pc = "Committing"
    /\ db' = add_messages(db, new_messages(req[r]))
    /\ Update(r, [req[r] EXCEPT !.pc = "Done", !.stream = "closed", !.appends = @ + 1,
                    !.log = Append(@, "append")])
    /\ UNCHANGED clock

AppendFail(r) ==
    /\ req[r].pc = "Committing"
    /\ Abort(r, "append")
    /\ UNCHANGED <<db, clock>>

Disconnect_detached(r) ==
    /\ req[r].pc \in {"Echoed", "HistoryRead", "Generating"}
    /\ req[r].cause = "none"
    /\ Update(r, [req[r] EXCEPT !.stream = "aborted", !.cause = "disconnect"])
    /\ UNCHANGED <<db, clock>>

\* the client goes away before the backend's stream has ended: StreamingResponse
\* cancels the task that iterates the generator, which is cancelled where it is
\* suspended.  (Once add_messages is under way the outcome is the Database's.)
Disconnect(r) ==
    /\ req[r].pc \in {"Echoed", "HistoryRead", "Generating"}
    /\ Abort(r, "disconnect")
    /\ UNCHANGED <<db, clock>>

\* the generator is finished or failed: its locals are dropped
Release(r) ==
    /\ req[r].pc \in {"Done", "Errored"}
    /\ Update(r, [Fresh EXCEPT !.pc = "Gone"])
    /\ UNCHANGED <<db, clock>>

\* the caller's precondition: one request in flight per conversation, so a
\* request is submitted once those before it are over
OneAtATime(r) == \A q \in Req : q < r => req[q].pc = "Gone"

Init ==
    /\ db = <<>>
    /\ clock = 1
    /\ req = [r \in Req |-> Fresh]
    /\ listed = NoListing
    /\ rec = NoRecord
    /\ wire = NoResult
    /\ wire_utils = NoResult
    /\ game = NewGame
    /\ bet = NoBet

Next ==
    \/ get_chat
    \/ \E r \in Req : \E p \in Prompts : OneAtATime(r) /\ Echo(r, p)
    \/ \E r \in Req : ReadHistory(r)
    \/ \E r \in Req : ReadFail(r)
    \/ \E r \in Req : \E k \in 0..MaxTools : Invoke(r, k)
    \/ \E r \in Req : \E f \in Frags(Len(req[r].fragments) + 1) : \E g \in Gaps :
            Fragment(r, f, g)
    \/ \E r \in Req : TimerFlush(r)
    \/ \E r \in Req : StreamEnd(r)
    \/ \E r \in Req : BackendFail(r)
    \/ \E r \in Req : Commit(r)
    \/ \E r \in Req : AppendFail(r)
    \/ \E r \in Req : Disconnect(r)
    \/ \E r \in Req : Release(r)

Spec == Init /\ [][Next]_vars

\* Requests that overlap: nothing in post_chat keeps a second request from
\* starting while the first is under way.  Replies are kept to ConcFrags fragments.
NextConc ==
    \/ \E r \in Req : \E p \in Prompts : Echo(r, p)
    \/ \E r \in Req : ReadHistory(r)
    \/ \E r \in Req : \E k \in 0..MaxTools : Invoke(r, k)
    \/ \E r \in Req : \E f \in Frags(Len(req[r].fragments) + 1) : \E g \in Gaps :
            Len(req[r].fragments) < ConcFrags /\ Fragment(r, f, g)
    \/ \E r \in Req : TimerFlush(r)
    \/ \E r \in Req : StreamEnd(r)
    \/ \E r \in Req : BackendFail(r)
    \/ \E r \in Req : Commit(r)
    \/ \E r \in Req : AppendFail(r)

SpecConc == Init /\ [][NextConc]_vars

\* ------------------------------------------------- the projections alone
\* Messages of every shape pydantic_ai can hand over: requests that batch a
\* system prompt, user prompts (one with non-str content) and tool returns;
\* responses that mix text and tool calls.
RequestParts ==
    {UserPromptPart(<<"u1">>, 1), UserPromptPart(<<"u2">>, 2),
     Part("UserPromptPart", <<"image">>, 3, FALSE),
     SystemPromptPart(<<"sys">>, 4), ToolReturnPart(<<"result">>, 5)}
ResponseParts == {TextPart(<<"x">>), TextPart(<<"y">>), ToolCallPart(<<"call">>)}
ResponseTimes == {6, 7}
SeqsUpTo(S, n) == UNION {[1..k -> S] : k \in 1..n}
Records ==
    {ModelRequest(ps) : ps \in SeqsUpTo(RequestParts, MaxParts)}
        \cup {ModelResponse(ps, ts) : ps \in SeqsUpTo(ResponseParts, MaxParts),
                                      ts \in ResponseTimes}

\* app.py's to_chat_message(rec)
Project ==
    /\ wire' = to_chat_message(rec)
    /\ UNCHANGED <<db, clock, req, listed, rec, wire_utils, game, bet>>

\* utils.py's to_chat_message(rec)
ProjectUtils ==
    /\ wire_utils' = utils_to_chat_message(rec)
    /\ UNCHANGED <<db, clock, req, listed, rec, wire, game, bet>>

InitWire ==
    /\ db = <<>>
    /\ clock = 1
    /\ req = [r \in Req |-> Fresh]
    /\ listed = NoListing
    /\ rec \in Records
    /\ wire = NoResult
    /\ wire_utils = NoResult
    /\ game = NewGame
    /\ bet = NoBet

NextWire == Project \/ ProjectUtils

SpecWire == InitWire /\ [][NextWire]_vars

\* ------------------------------------------------------- roulette: tools
MaxCalls == 4

\* the bets the agent passes to the tools: a bet type with a bet value
Bets ==
    {<<"straight", v>> : v \in {<<"1", "7">>, <<"0">>, <<"0", "0">>, <<"3", "7">>,
                                <<"3", "8">>, <<"seventeen">>}}
        \cup {<<"color", v>> : v \in {<<"red">>, <<"black">>, <<"green">>}}
        \cup {<<"odd_even", v>> : v \in {<<"odd">>, <<"even">>}}
        \cup {<<"high_low", v>> : v \in {<<"high">>, <<"low">>}}
        \cup {<<"dozen", <<"first">>>>}
Amounts == {-500, 0, 500, 1500}

Chat == <<db, clock, req, listed, rec, wire, wire_utils>>

\* a tool call returned reply, the GameState being now as in g
Returned(g, reply) ==
    /\ game.calls < MaxCalls
    /\ game' = [g EXCEPT !.reply = reply, !.calls = game.calls + 1]
    /\ UNCHANGED <<Chat, bet>>

spin_wheel(winning_number) ==
    LET color == get_number_color(winning_number)
        formatted_number == format_number(winning_number)
        result == [number |-> formatted_number, color |-> color]
    IN  Returned([game EXCEPT !.winning_number = Some(winning_number),
                              !.last_spin_result = Some(result)],
                 Reply("spin_wheel", "spin", winning_number, 0))

get_current_balance ==
    Returned(game, Reply("get_current_balance", "int", 0, game.balance))

get_balance ==
    Returned(game, Reply("get_balance", "balance", 0, game.balance))

\* the message place_bet returns
place_bet_message(bet_type, bet_value, amount) ==
    LET said(kind) == Reply("place_bet", kind, amount, game.balance)
        num == IF bet_value # <<"0", "0">> THEN int(bet_value)
               ELSE [raised |-> "none", value |-> 37]
    IN  IF amount <= 0 THEN said("not_positive")
        ELSE IF amount > game.balance THEN said("insufficient")
        ELSE IF bet_type \notin {"straight", "color", "odd_even", "high_low"}
        THEN said("invalid_type")
        ELSE IF bet_type = "straight" /\ num.raised = "ValueError"
        THEN said("invalid_format")
        ELSE IF bet_type = "straight" /\ num.value \notin ROULETTE_NUMBERS
        THEN said("invalid_number")
        ELSE IF bet_type = "color" /\ bet_value \notin {<<"red">>, <<"black">>}
        THEN said("invalid_color")
        ELSE IF bet_type = "odd_even" /\ bet_value \notin {<<"odd">>, <<"even">>}
        THEN said("invalid_odd_even")
        ELSE IF bet_type = "high_low" /\ bet_value \notin {<<"high">>, <<"low">>}
        THEN said("invalid_high_low")
        ELSE said("placed")

place_bet_deducting(bet_type, bet_value, amount) ==
    LET reply == place_bet_message(bet_type, bet_value, amount)
    IN  Returned([game EXCEPT !.balance = IF reply.kind = "placed" THEN @ - amount ELSE @],
                 reply)

place_bet(bet_type, bet_value, amount) ==
    Returned(game, place_bet_message(bet_type, bet_value, amount))

\* check_results; the ValueError of int(bet_value) leaves the tool uncaught and
\* main() prints it
check_results(bet_type, bet_value, bet_amount) ==
    LET said(kind, amount, shown) == Reply("check_results", kind, amount, shown)
        calc_bet_value ==
            IF bet_type = "straight"
            THEN IF bet_value # <<"0", "0">> THEN int(bet_value)
                 ELSE [raised |-> "none", value |-> 37]
            ELSE [raised |-> "none", value |-> bet_value]
    IN  IF game.winning_number = None
        THEN Returned(game, said("no_spin", 0, game.balance))
        ELSE IF calc_bet_value.raised # "none"
        THEN Returned(game, said(calc_bet_value.raised, 0, game.balance))
        ELSE LET payout == calculate_payout(bet_type, bet_amount,
                                            game.winning_number[1], calc_bet_value.value)
                 won == game.balance + payout
                 lost == game.balance - bet_amount
             IN  IF payout > 0
                 THEN Returned([game EXCEPT !.balance = won], said("winner", payout, won))
                 ELSE IF lost <= 0
                 THEN Returned([game EXCEPT !.balance = lost], said("bust", bet_amount, 0))
                 ELSE Returned([game EXCEPT !.balance = lost], said("lost", bet_amount, lost))

NextGame ==
    \/ \E n \in ROULETTE_NUMBERS : spin_wheel(n)
    \/ get_current_balance
    \/ get_balance
    \/ \E b \in Bets : \E a \in Amounts : place_bet(b[1], b[2], a)
    \/ \E b \in Bets : \E a \in Amounts : check_results(b[1], b[2], a)

SpecGame == Init /\ [][NextGame]_vars

\* ------------------------------------------------ roulette: calculate_payout
\* the calls check_results can make: an int with a straight bet, a str otherwise
PayoutBets ==
    {<<"straight", n>> : n \in ROULETTE_NUMBERS}
        \cup {<<"color", v>> : v \in {<<"red">>, <<"black">>, <<"green">>}}
        \cup {<<"odd_even", v>> : v \in {<<"odd">>, <<"even">>}}
        \cup {<<"high_low", v>> : v \in {<<"high">>, <<"low">>}}
        \cup {<<"dozen", <<"first">>>>}
PayoutAmounts == {1, 50, 1000}

Pay ==
    /\ bet.payout = None
    /\ bet' = [bet EXCEPT !.payout = Some(calculate_payout(bet.bet_type, bet.bet_amount,
                                                           bet.winning_number, bet.bet_value))]
    /\ UNCHANGED <<Chat, game>>

InitPayout ==
    /\ db = <<>>
    /\ clock = 1
    /\ req = [r \in Req |-> Fresh]
    /\ listed = NoListing
    /\ rec = NoRecord
    /\ wire = NoResult
    /\ wire_utils = NoResult
    /\ game = NewGame
    /\ \E b \in PayoutBets : \E a \in PayoutAmounts : \E w \in ROULETTE_NUMBERS :
            bet = [bet_type |-> b[1], bet_amount |-> a, winning_number |-> w,
                   bet_value |-> b[2], payout |-> None]

NextPayout == Pay

SpecPayout == InitPayout /\ [][NextPayout]_vars

\* ================================================================ claims
Started(q) == q.pc \notin {"Idle", "Gone"}
Ended(q) == q.pc \in {"Committing", "Done"}
ModelFrames(q) == Len(q.frames) - 1
Last(sq) == sq[Len(sq)]
HasPart(m, t) == \E i \in 1..Len(m.parts) : m.parts[i].type = t
Min(S) == CHOOSE i \in S : \A j \in S : i <= j

\* C1: the first frame of a request is the user echo of its prompt, verbatim,
\* and the echo comes before the history is read and before the backend is invoked.
C1_EchoFirst ==
    \A r \in Req : Started(req[r]) =>
        /\ Len(req[r].frames) >= 1
        /\ req[r].frames[1].raised = "none"
        /\ req[r].frames[1].role = "user"
        /\ req[r].frames[1].content = req[r].prompt
        /\ req[r].log[1] = "echo"
        /\ \A i \in 1..Len(req[r].log) : req[r].log[i] \in {"read", "invoke"} => i > 1
        /\ (req[r].pc = "Echoed" => req[r].log = <<"echo">>)

C1_Witness ==
    \E r \in Req : req[r].pc = "Generating" /\ Len(req[r].frames) >= 2
                   /\ Len(req[r].prompt) = 2

\* the batch a finished request added: what the Database holds beyond what it held
\* when the request read it
Batch(q) == SubSeq(db, Len(q.messages) + 1, Len(db))

\* C2: a turn that completes has called add_messages exactly once, and the batch is
\* one user-prompt request, first, followed by model-authored records, a response last.
C2_OneBatch ==
    \A r \in Req :
        /\ req[r].appends = (IF req[r].pc = "Done" THEN 1 ELSE 0)
        /\ req[r].pc = "Done" =>
            /\ SubSeq(db, 1, Len(req[r].messages)) = req[r].messages
            /\ Len(Batch(req[r])) >= 2
            /\ {i \in 1..Len(Batch(req[r])) : HasPart(Batch(req[r])[i], "UserPromptPart")} = {1}
            /\ Batch(req[r])[1] = ModelRequest(<<UserPromptPart(req[r].prompt, req[r].user_time)>>)
            /\ \E i \in 2..Len(Batch(req[r])) : Batch(req[r])[i].kind = "ModelResponse"
            /\ Last(Batch(req[r])).kind = "ModelResponse"

C2_Witness ==
    \E r \in Req : req[r].pc = "Done" /\ req[r].tools > 0 /\ req[r].messages # <<>>

\* C3: when the backend fails, before or after fragments, add_messages is not
\* called and the Database holds what it held when the request was submitted.
C3_NoCommitOnBackendFailure ==
    \A r \in Req : req[r].cause = "backend" =>
        /\ req[r].pc = "Errored"
        /\ req[r].appends = 0
        /\ "append" \notin {req[r].log[i] : i \in 1..Len(req[r].log)}
        /\ db = req[r].before

C3_Witness ==
    \E r \in Req : req[r].cause = "backend" /\ ModelFrames(req[r]) >= 1 /\ db # <<>>

RECURSIVE Lenient(_)
Lenient(msgs) ==
    IF msgs = <<>> THEN <<>>
    ELSE LET w == to_chat_message(Head(msgs))
         IN  (IF w.raised = "none" THEN <<w>> ELSE <<>>) \o Lenient(Tail(msgs))

\* C5, as claimed: GET /chat/ never raises and returns the projections of the
\* representable messages, in order, leaving the others out.
C5_LenientListing ==
    listed.status # 0 => listed.status = 200 /\ listed.body = Lenient(listed.seen)

Unrepresentable(msgs) == {i \in 1..Len(msgs) : to_chat_message(msgs[i]).raised # "none"}

\* C6: a listing over messages of which one cannot be projected raises at the
\* first such message and hands the caller no line at all, not even those of
\* the messages before it; over messages that all project it returns every line.
C6_StrictListing ==
    listed.status # 0 =>
        IF Unrepresentable(listed.seen) = {}
        THEN /\ listed.status = 200
             /\ listed.body = [i \in 1..Len(listed.seen) |-> to_chat_message(listed.seen[i])]
        ELSE /\ listed.status = 500
             /\ listed.at = Min(Unrepresentable(listed.seen))
             /\ listed.raised = to_chat_message(listed.seen[listed.at]).raised
             /\ listed.body = <<>>

C6_Witness ==
    /\ listed.status = 500
    /\ listed.at > 1
    /\ Len(listed.seen) > listed.at

UserTexts(m) == {i \in 1..Len(m.parts) : m.parts[i].type = "UserPromptPart" /\ m.parts[i].is_str}
SystemOnlyBefore(m, i) == \A j \in 1..(i - 1) : m.parts[j].type = "SystemPromptPart"

\* C7, as claimed: the server's projection of a request takes the first part with
\* user text, past the system prompts before it, with that part's timestamp and
\* text; a request without a user part cannot be projected.
C7_FirstUserPart ==
    (wire # NoResult /\ rec.kind = "ModelRequest") =>
        /\ (UserTexts(rec) # {} /\ SystemOnlyBefore(rec, Min(UserTexts(rec)))) =>
              wire = ChatMessage("user", isoformat(rec.parts[Min(UserTexts(rec))].timestamp),
                                 rec.parts[Min(UserTexts(rec))].content)
        /\ ~HasPart(rec, "UserPromptPart") => wire = Raise("UnexpectedModelBehavior")

\* C8: a response projects exactly when its first part is text, to role "model"
\* with the response's timestamp and that part's text; a response that opens with
\* a tool call does not project, whatever follows.  Both copies agree.
C8_ResponseFirstPart ==
    \A w \in {wire, wire_utils} \ {NoResult} :
        rec.kind = "ModelResponse" =>
            IF rec.parts[1].type = "TextPart"
            THEN w = ChatMessage("model", isoformat(rec.timestamp), rec.parts[1].content)
            ELSE w = Raise("UnexpectedModelBehavior")

C8_Witness ==
    /\ rec.kind = "ModelResponse"
    /\ Len(rec.parts) > 1
    /\ rec.parts[1].type = "ToolCallPart"
    /\ rec.parts[2].type = "TextPart"
    /\ wire = Raise("UnexpectedModelBehavior")
    /\ wire_utils = Raise("UnexpectedModelBehavior")

\* C9: once the backend's stream has ended normally, the last frame sent is a
\* model frame whose content is every fragment the backend produced, joined.
C9_FinalFlush ==
    \A r \in Req : Ended(req[r]) =>
        /\ ModelFrames(req[r]) >= 1
        /\ Last(req[r].frames).role = "model"
        /\ Last(req[r].frames).content = Concat(req[r].fragments)

C9_Witness ==
    \E r \in Req : /\ req[r].pc = "Committing"
                   /\ Len(req[r].fragments) = 3
                   /\ ModelFrames(req[r]) = 2
                   /\ req[r].frames[2].content = Concat(SubSeq(req[r].fragments, 1, 1))

\* every fragment after the first came less than the interval after the one before
AllFast(q) == \A i \in 2..Len(q.gaps) : q.gaps[i] < DebounceBy

\* C10, as claimed: fragments that arrive faster than the interval give fewer
\* model frames than fragments.
C10_FewerFrames ==
    \A r \in Req : (Ended(req[r]) /\ AllFast(req[r])) =>
        ModelFrames(req[r]) < Len(req[r].fragments)

\* C10, amended: two or more such fragments give fewer model frames than
\* fragments; a reply of one fragment gives one frame, and there are never
\* more model frames than fragments.
C10_FewerFramesFromTwo ==
    \A r \in Req : Ended(req[r]) =>
        /\ ModelFrames(req[r]) <= Len(req[r].fragments)
        /\ (AllFast(req[r]) /\ Len(req[r].fragments) >= 2) =>
              ModelFrames(req[r]) < Len(req[r].fragments)
        /\ Len(req[r].fragments) = 1 => ModelFrames(req[r]) = 1

C10_Witness ==
    \E r \in Req : /\ Ended(req[r])
                   /\ AllFast(req[r])
                   /\ Len(req[r].fragments) = 3
                   /\ ModelFrames(req[r]) = 2


IsPrefix(s, t) == Len(s) <= Len(t) /\ SubSeq(t, 1, Len(s)) = s

\* C11: within a turn every frame after the first is a model frame, the model
\* frames share one timestamp, and the content of each is a prefix of the next.
C11_GrowingSnapshots ==
    \A r \in Req : \A i \in 2..Len(req[r].frames) :
        /\ req[r].frames[i].raised = "none"
        /\ req[r].frames[i].role = "model"
        /\ req[r].frames[i].timestamp = req[r].frames[2].timestamp
        /\ req[r].frames[i].timestamp = isoformat(req[r].result_time)
        /\ i > 2 => /\ IsPrefix(req[r].frames[i - 1].content, req[r].frames[i].content)
                    /\ req[r].frames[i - 1].content # req[r].frames[i].content

C11_Witness ==
    \E r \in Req : ModelFrames(req[r]) = 3 /\ Len(req[r].frames[4].content) = 3

\* C12: the history only grows at its end: each step leaves what the Database
\* held as a prefix of what it holds, and what a listing or a request read
\* earlier is a prefix of it too, whether requests complete, fail or are dropped.
C12_AppendOnly ==
    [][/\ IsPrefix(db, db')
       /\ IsPrefix(listed'.seen, db')
       /\ \A r \in Req : IsPrefix(req'[r].messages, db')
      ]_vars

C12_Witness ==
    /\ listed.seen # <<>>
    /\ Len(listed.seen) < Len(db)
    /\ \E r \in Req : req[r].pc = "Done" /\ req[r].messages = listed.seen

\* the claim's state of a request; reading the history is part of Echoed
State(q) == IF q.pc = "HistoryRead" THEN "Echoed" ELSE q.pc
Moves ==
    {<<"Idle", "Echoed">>, <<"Echoed", "Generating">>, <<"Generating", "Committing">>,
     <<"Committing", "Done">>, <<"Echoed", "Errored">>, <<"Generating", "Errored">>,
     <<"Committing", "Errored">>, <<"Done", "Gone">>, <<"Errored", "Gone">>}
Steps(l) == {<<l[i], l[i + 1]>> : i \in 1..(Len(l) - 1)}
StepOrder ==
    {<<"echo", "read">>, <<"read", "invoke">>, <<"invoke", "frame">>, <<"frame", "frame">>,
     <<"frame", "end">>, <<"end", "append">>,
     <<"echo", "raise">>, <<"read", "raise">>, <<"invoke", "raise">>, <<"frame", "raise">>,
     <<"end", "raise">>}

\* C13: a request goes Idle, Echoed, Generating, Committing, Done in that order;
\* the history is read after the echo and before the backend is invoked, the
\* append comes only after the backend's stream has ended, and after an error
\* the request sends no frame and appends nothing.
C13_StateOrder ==
    [][\A r \in Req :
          /\ State(req[r]) # State(req'[r]) => <<State(req[r]), State(req'[r])>> \in Moves
          /\ Steps(req'[r].log) \subseteq StepOrder
          /\ Started(req'[r]) => req'[r].log[1] = "echo"
          /\ req[r].cause # "none" =>
                /\ req'[r].pc \in {"Errored", "Gone"}
                /\ req'[r].pc = "Errored" => req'[r] = req[r]
                /\ db' = db
      ]_vars

C13_Witness ==
    /\ \E r \in Req : req[r].pc = "Gone"
    /\ \E r \in Req : req[r].log = <<"echo", "read", "invoke", "frame", "frame", "end", "raise">>

\* the two messages a completed turn adds to the projection of the history
TurnMessages(q) ==
    <<ChatMessage("user", isoformat(q.user_time), q.prompt),
      ChatMessage("model", isoformat(q.result_time), Last(q.frames).content)>>

\* C14, as claimed: a completed turn adds the user message and the model message
\* of the last frame to the lenient projection, and on an empty conversation
\* with prompt "hello" the history holds exactly two records.
C14_TwoRecords ==
    \A r \in Req : req[r].pc = "Done" =>
        /\ Lenient(db) = Lenient(req[r].messages) \o TurnMessages(req[r])
        /\ (req[r].messages = <<>> /\ req[r].prompt = <<"hello">>) => Len(db) = 2

\* C14, amended: the projection grows by exactly those two messages; the history
\* itself grows by two records plus two for each tool round trip of the turn, so
\* it holds exactly two only when the backend called no tool.
C14_TurnProjection ==
    \A r \in Req : req[r].pc = "Done" =>
        /\ Lenient(db) = Lenient(req[r].messages) \o TurnMessages(req[r])
        /\ Last(Lenient(db)) = Last(req[r].frames)
        /\ Len(db) = Len(req[r].messages) + 2 + 2 * req[r].tools

C14_Witness ==
    \E r \in Req : /\ req[r].pc = "Done"
                   /\ req[r].messages = <<>>
                   /\ req[r].prompt = <<"hello">>
                   /\ req[r].tools = 1
                   /\ Len(db) = 4
                   /\ Len(Lenient(db)) = 2

Orders(S) == {s \in [1..Cardinality(S) -> S] : \A i, j \in DOMAIN s : i # j => s[i] # s[j]}
RECURSIVE Batches(_)
Batches(order) ==
    IF order = <<>> THEN <<>> ELSE new_messages(req[Head(order)]) \o Batches(Tail(order))
Committed == {r \in Req : req[r].pc = "Done"}

\* C15: when requests overlap, the history is the batches of the turns that
\* committed, each whole and unbroken, in the order of their commits, which may
\* be either order.
C15_ContiguousTurns ==
    \E order \in Orders(Committed) : db = Batches(order)

C15_Witness ==
    /\ Committed = {1, 2}
    /\ req[1].user_time < req[2].user_time
    /\ req[1].messages = <<>> /\ req[2].messages = <<>>
    /\ db = Batches(<<2, 1>>)

\* C16, as claimed: a request whose client has gone still commits its turn.
C16_CommittedAfterDisconnect ==
    \A r \in Req : (req[r].cause = "disconnect" /\ req[r].fragments # <<>>) =>
        /\ req[r].appends = 1
        /\ IsPrefix(req[r].messages \o new_messages(req[r]), db)

\* C16, amended: when the client goes away before the backend's stream has
\* ended, the generator is cancelled where it stands: no frame is sent after that, the generation does not go on, and the
\* turn is never added to the history.
C16_CancelledOnDisconnect ==
    [][\A r \in Req :
          /\ (req[r].cause = "none" /\ req'[r].cause = "disconnect") =>
                /\ req'[r].pc = "Errored"
                /\ req'[r].frames = req[r].frames
                /\ req'[r].fragments = req[r].fragments
                /\ req'[r].appends = 0
                /\ db' = db
          /\ req[r].cause = "disconnect" =>
                /\ req'[r] = req[r] \/ req'[r].pc = "Gone"
                /\ db' = db
      ]_vars

C16_Witness ==
    \E r \in Req : /\ req[r].cause = "disconnect"
                   /\ req[r].pc = "Errored"
                   /\ ModelFrames(req[r]) = 1
                   /\ req[r].buffered > 0
                   /\ db = req[r].before


\* the rules get_game_rules publishes: which bet wins on which number, and what a
\* winning bet pays for each unit staked
Outside == {"color", "odd_even", "high_low"}
Wins(b) ==
    \/ b.bet_type = "straight" /\ b.bet_value = b.winning_number
    \/ /\ b.bet_type \in Outside
       /\ b.winning_number \in 1..36
       /\ \/ b.bet_type = "color" /\ b.bet_value = <<"red">> /\ b.winning_number \in RED_NUMBERS
          \/ b.bet_type = "color" /\ b.bet_value = <<"black">> /\ b.winning_number \in BLACK_NUMBERS
          \/ b.bet_type = "odd_even" /\ b.bet_value = <<"odd">> /\ b.winning_number % 2 = 1
          \/ b.bet_type = "odd_even" /\ b.bet_value = <<"even">> /\ b.winning_number % 2 = 0
          \/ b.bet_type = "high_low" /\ b.bet_value = <<"low">> /\ b.winning_number \in 1..18
          \/ b.bet_type = "high_low" /\ b.bet_value = <<"high">> /\ b.winning_number \in 19..36
Pays(b) == IF b.bet_type = "straight" THEN 35 * b.bet_amount ELSE 1 * b.bet_amount

\* C17: calculate_payout follows the published rules for every wheel number and
\* every bet: a winning straight bet pays 35 times the bet amount, a winning color,
\* odd/even or high/low bet pays the bet amount, a losing bet pays 0; on 0 and 00
\* every color, odd/even and high/low bet loses and a straight bet on that number wins.
C17_PayoutRules ==
    bet.payout # None =>
        /\ bet.payout[1] = IF Wins(bet) THEN Pays(bet) ELSE 0
        /\ (bet.winning_number \in {0, 37} /\ bet.bet_type \in Outside) => bet.payout[1] = 0
        /\ (bet.bet_type = "straight" /\ bet.bet_value = bet.winning_number)
                => bet.payout[1] = 35 * bet.bet_amount

\* C18: starting from a balance of 1000, after any sequence of spin_wheel, place_bet
\* and check_results the balance is never negative, and when check_results reports
\* BUST with "Balance: $0" the stored balance is exactly 0.
C18_NonNegativeBalance ==
    /\ game.balance >= 0
    /\ (game.reply.kind = "bust" /\ game.reply.shown = 0) => game.balance = 0

Stored(g) == <<g.balance, g.winning_number, g.last_spin_result>>

\* C19: place_bet never changes the game state, whether it accepts or rejects the
\* bet; check_results before any spin answers "No spin result available" and leaves
\* balance, winning_number and last_spin_result as they were; the balance changes
\* only in check_results after a spin, by plus the payout on a win or minus the bet
\* amount on a loss.
C19_FrameEffect ==
    [][game'.calls # game.calls =>
        /\ game'.reply.tool = "place_bet" => Stored(game') = Stored(game)
        /\ (game'.reply.tool = "check_results" /\ game.winning_number = None)
                => game'.reply.kind = "no_spin" /\ Stored(game') = Stored(game)
        /\ game'.balance # game.balance =>
                /\ game'.reply.tool = "check_results"
                /\ game.winning_number # None
                /\ \/ /\ game'.reply.kind = "winner"
                      /\ game'.reply.amount > 0
                      /\ game'.balance = game.balance + game'.reply.amount
                   \/ /\ game'.reply.kind \in {"lost", "bust"}
                      /\ game'.balance = game.balance - game'.reply.amount]_vars

\* a bet is accepted after a spin and a check_results that changed the balance
C19_Witness ==
    /\ game.reply.tool = "place_bet"
    /\ game.reply.kind = "placed"
    /\ game.winning_number # None
    /\ game.balance # GameState.balance

====
